---- MODULE Spec2Model ----
(***************************************************************************)
(* Model of the memory processor Lambda (functions/memory_processor/app.py)*)
(* and of the memory provisioning script (scripts/setup_memory.py).        *)
(*                                                                         *)
(* Python strings are sequences of one-character strings, so that          *)
(* formatting, joining, splitting and URL parsing are computed character   *)
(* by character.  A value that may be absent (a missing dict key, None) is *)
(* a record [some, v].                                                     *)
(***************************************************************************)
EXTENDS Integers, Sequences, FiniteSets, TLC

VARIABLES
    \* ---- handler (one Lambda invocation at a time)
    pc,           \* "idle" | "fetch" | "invoke" | "store" | "done"
    invocations,  \* number of invocations started so far
    location,     \* msg["s3PayloadLocation"] of the current invocation
    objRef,       \* (bucket, key) returned by _parse_s3_payload_location
    delivered,    \* the payload read from S3
    transcript,   \* the transcript handed to the model
    extracted,    \* the parsed model output
    now,          \* the timestamp read at line 93
    records,      \* the records list built by the loop at lines 95-104
    calls,        \* external calls made by this invocation, in order
    result,       \* "none" | "ok" | "raised"
    stored,       \* the "stored" field of a successful return
    failedAt,     \* the stage whose failure ended the invocation
    clock,        \* the wall clock, advanced by every read
    store,        \* (session, key, requestIdentifier) of every record written
    \* ---- _parse_s3_payload_location on its own
    url,          \* the location under test
    parsed,       \* [done, raised, bucket, key]
    \* ---- _build_transcript on its own
    payload,      \* the payload under test
    built,        \* [done, text]
    \* ---- get_or_create_memory
    memories,     \* the account's memories, in list_memories order
    runs,         \* number of runs of the script so far
    createCalls,  \* number of create_memory calls made so far
    dupCreate,    \* a create_memory call was made while a matching memory existed
    returned      \* what the last run returned

handlerVars == <<pc, invocations, location, objRef, delivered, transcript, extracted,
                 now, records, calls, result, stored, failedAt, clock, store>>
parseVars == <<url, parsed>>
transcriptVars == <<payload, built>>
setupVars == <<memories, runs, createCalls, dupCreate, returned>>
vars == <<handlerVars, parseVars, transcriptVars, setupVars>>

----------------------------------------------------------------------------
(* Bounds of the model *)

MaxFacts == 2         \* facts in one model output
MaxInvocations == 2   \* invocations of the handler (deliveries)
MaxItems == 3         \* context items of one payload, both sections together
MaxTail == 4          \* characters after the location's prefix
MaxRuns == 3          \* runs of the setup script

----------------------------------------------------------------------------
(* Optional values and strings *)

None == [some |-> FALSE, v |-> <<>>]
Some(x) == [some |-> TRUE, v |-> x]

\* str(None), as an f-string renders an absent value
StrNone == <<"N", "o", "n", "e">>

\* f"{x}" for x a str or None
Fmt(x) == IF x.some THEN x.v ELSE StrNone

\* dict.get(key, default)
GetOr(x, default) == IF x.some THEN x.v ELSE default

\* the sequences over S of length at most n
SeqUpTo(S, n) == UNION {[1..k -> S] : k \in 0..n}

\* s.find(c) from position from (1-based; 0 when there is none)
FindFrom(s, cs, from) ==
    IF \E i \in from..Len(s) : s[i] \in cs
    THEN CHOOSE i \in from..Len(s) : s[i] \in cs /\ \A j \in from..(i - 1) : s[j] \notin cs
    ELSE 0

\* s.lstrip(c)
LStrip(s, c) ==
    IF \A i \in 1..Len(s) : s[i] = c
    THEN <<>>
    ELSE LET k == CHOOSE i \in 1..Len(s) : s[i] # c /\ \A j \in 1..(i - 1) : s[j] = c
         IN  SubSeq(s, k, Len(s))

\* sep.join(parts)
RECURSIVE Join(_, _)
Join(parts, sep) ==
    IF parts = <<>> THEN <<>>
    ELSE IF Len(parts) = 1 THEN parts[1]
    ELSE parts[1] \o sep \o Join(Tail(parts), sep)

\* s.split(c)
RECURSIVE Split(_, _)
Split(s, c) ==
    LET i == FindFrom(s, {c}, 1)
    IN  IF i = 0 THEN <<s>>
        ELSE <<SubSeq(s, 1, i - 1)>> \o Split(SubSeq(s, i + 1, Len(s)), c)

NL == "\n"

----------------------------------------------------------------------------
(* _parse_s3_payload_location, with urllib.parse.urlparse *)

Letters == {"s", "S", "h", "b", "k"}
Digits == {"3"}
SchemeChars == Letters \cup Digits \cup {"+", "-", "."}
Lower(c) == IF c = "S" THEN "s" ELSE c

\* urlparse(url): [scheme, netloc, path]; the query and the fragment are cut
\* off the path and not used by the caller
UrlParse(u) ==
    LET i == FindFrom(u, {":"}, 1)
        hasScheme == /\ i > 1
                     /\ u[1] \in Letters
                     /\ \A j \in 1..(i - 1) : u[j] \in SchemeChars
        scheme == IF hasScheme THEN [j \in 1..(i - 1) |-> Lower(u[j])] ELSE <<>>
        r1 == IF hasScheme THEN SubSeq(u, i + 1, Len(u)) ELSE u
        hasNetloc == Len(r1) >= 2 /\ r1[1] = "/" /\ r1[2] = "/"
        d == FindFrom(r1, {"/", "?", "#"}, 3)
        delim == IF d = 0 THEN Len(r1) + 1 ELSE d
        netloc == IF hasNetloc THEN SubSeq(r1, 3, delim - 1) ELSE <<>>
        r2 == IF hasNetloc THEN SubSeq(r1, delim, Len(r1)) ELSE r1
        h == FindFrom(r2, {"#"}, 1)
        r3 == IF h = 0 THEN r2 ELSE SubSeq(r2, 1, h - 1)
        q == FindFrom(r3, {"?"}, 1)
        path == IF q = 0 THEN r3 ELSE SubSeq(r3, 1, q - 1)
    IN  [scheme |-> scheme, netloc |-> netloc, path |-> path]

S3Scheme == <<"s", "3">>

\* the guard of line 28
ParseRaises(loc) ==
    LET u == UrlParse(loc)
    IN  u.scheme # S3Scheme \/ u.netloc = <<>> \/ u.path = <<>>

\* the return value of line 30
ParseResult(loc) ==
    LET u == UrlParse(loc)
    IN  [bucket |-> u.netloc, key |-> LStrip(u.path, "/")]

_parse_s3_payload_location(loc) ==
    IF ParseRaises(loc)
    THEN [done |-> TRUE, raised |-> TRUE, bucket |-> <<>>, key |-> <<>>]
    ELSE [done |-> TRUE, raised |-> FALSE,
          bucket |-> ParseResult(loc).bucket, key |-> ParseResult(loc).key]

NotParsed == [done |-> FALSE, raised |-> FALSE, bucket |-> <<>>, key |-> <<>>]

----------------------------------------------------------------------------
(* _extract_text_from_context_item and _build_transcript *)

Quote == "\""
Backslash == "\\"

\* json.dumps of one character of a string
JsonChar(c) ==
    IF c = NL THEN <<Backslash, "n">>
    ELSE IF c = Quote THEN <<Backslash, Quote>>
    ELSE IF c = Backslash THEN <<Backslash, Backslash>>
    ELSE <<c>>

\* json.dumps(s) for a str s
RECURSIVE JsonEscape(_)
JsonEscape(s) == IF s = <<>> THEN <<>> ELSE JsonChar(Head(s)) \o JsonEscape(Tail(s))
JsonString(s) == <<Quote>> \o JsonEscape(s) \o <<Quote>>

\* json.dumps(content) for a content dict with optional "text" and "d" fields
JsonContent(c) ==
    LET t == IF c.text.some
             THEN <<Quote, "t", "e", "x", "t", Quote, ":", " ">> \o JsonString(c.text.v)
             ELSE <<>>
        d == IF c.d.some
             THEN <<Quote, "d", Quote, ":", " ">> \o JsonString(c.d.v)
             ELSE <<>>
        sep == IF c.text.some /\ c.d.some THEN <<",", " ">> ELSE <<>>
    IN  <<"{">> \o t \o sep \o d \o <<"}">>

\* json.dumps(item)
JsonItem(item) ==
    LET r == IF item.role.some
             THEN <<Quote, "r", "o", "l", "e", Quote, ":", " ">> \o JsonString(item.role.v)
             ELSE <<>>
        c == IF item.content.some
             THEN <<Quote, "c", "o", "n", "t", "e", "n", "t", Quote, ":", " ">>
                  \o JsonContent(item.content.v)
             ELSE <<>>
        sep == IF item.role.some /\ item.content.some THEN <<",", " ">> ELSE <<>>
    IN  <<"{">> \o r \o sep \o c \o <<"}">>

EmptyContent == [text |-> None, d |-> None]
Unknown == <<"U", "N", "K", "N", "O", "W", "N">>

\* lines 32-38
_extract_text_from_context_item(item) ==
    LET role == GetOr(item.role, Unknown)
        content == GetOr(item.content, EmptyContent)
        text == IF content.text.some THEN content.text.v
                ELSE IF content # EmptyContent THEN JsonContent(content)
                ELSE JsonItem(item)
    IN  role \o <<":", " ">> \o text

\* line 44
HasRoleAndContent(item) == item.role.some /\ item.content.some

\* lines 43-45 for one section: payload.get(section, []) or []
SectionParts(section) ==
    LET items == SelectSeq(GetOr(section, <<>>), HasRoleAndContent)
    IN  [i \in 1..Len(items) |-> _extract_text_from_context_item(items[i])]

\* a swapped section order
BuildTranscriptCurrentFirst(p) ==
    Join(SectionParts(p.currentContext) \o SectionParts(p.historicalContext), <<NL>>)

\* lines 40-46
_build_transcript(p) ==
    Join(SectionParts(p.historicalContext) \o SectionParts(p.currentContext), <<NL>>)

----------------------------------------------------------------------------
(* handler: inputs *)

\* msg["s3PayloadLocation"]: s3://b/k, h://b/k, s3://b/ and s3://b
Locations ==
    { <<"s", "3", ":", "/", "/", "b", "/", "k">>,
      <<"h", ":", "/", "/", "b", "/", "k">>,
      <<"s", "3", ":", "/", "/", "b", "/">>,
      <<"s", "3", ":", "/", "/", "b">> }

\* delivered["sessionId"]: absent, "a" and "a-b"
Sessions == {None, Some(<<"a">>), Some(<<"a", "-", "b">>)}

\* delivered["actorId"]: absent and "U"
Actors == {None, Some(<<"U">>)}

UserSaysHi == [role |-> Some(<<"u">>), content |-> Some([text |-> Some(<<"h">>), d |-> None])]

Payloads ==
    [actorId : Actors, sessionId : Sessions,
     historicalContext : {None},
     currentContext : {Some(<<UserSaysHi>>)}]

NoPayload == [actorId |-> None, sessionId |-> None,
              historicalContext |-> None, currentContext |-> None]

\* facts: {"key": "c", "value": "v"}, {"key": "b-c", "value": "v"}, one with
\* no "key" and one with no "value"
Facts ==
    { [key |-> Some(<<"c">>), value |-> Some(<<"v">>)],
      [key |-> Some(<<"b", "-", "c">>), value |-> Some(<<"v">>)],
      [key |-> None, value |-> Some(<<"v">>)],
      [key |-> Some(<<"c">>), value |-> None] }

\* the model's parsed output: a dict with or without "facts"
Extractions == {[facts |-> None]} \cup {[facts |-> Some(fs)] : fs \in SeqUpTo(Facts, MaxFacts)}

NoExtraction == [facts |-> None]

----------------------------------------------------------------------------
(* handler: the mapping of facts to records, lines 93-104 *)

UnknownKey == <<"u", "n", "k", "n", "o", "w", "n">>

\* line 99: f"{session_id}-{f.get('key', 'unknown')}"
RequestIdentifier(session_id, f) == Fmt(session_id) \o <<"-">> \o GetOr(f.key, UnknownKey)

\* line 102: f'{f["key"]}: {f["value"]}'
ContentText(f) == f.key.v \o <<":", " ">> \o f.value.v

\* line 102 raises KeyError when the fact has no "key" or no "value"
FactRaises(f) == ~f.key.some \/ ~f.value.some

\* the namespace of the commented-out line 100
NamespacesPerActor(actor_id) ==
    << <<"/", "u", "s", "e", "r", "s", "/">> \o Fmt(actor_id) \o <<"/", "i", "n", "f", "o">>,
       <<"/">> >>

\* line 101
Namespaces(actor_id) == << <<"/">> >>

\* lines 98-104
RecordOf(actor_id, session_id, f, ts) ==
    [requestIdentifier |-> RequestIdentifier(session_id, f),
     namespaces |-> Namespaces(actor_id),
     content |-> [text |-> ContentText(f)],
     timestamp |-> ts]

\* a loop that reads the clock for every record
MapFactsClockPerFact(actor_id, session_id, facts, ts) ==
    IF \E i \in 1..Len(facts) : FactRaises(facts[i])
    THEN [raised |-> TRUE, records |-> <<>>]
    ELSE [raised |-> FALSE,
          records |-> [i \in 1..Len(facts) |-> RecordOf(actor_id, session_id, facts[i], ts + i - 1)]]

IsComplete(f) == ~FactRaises(f)

\* a loop that skips the facts it cannot map
MapFactsSkipping(actor_id, session_id, facts, ts) ==
    LET fs == SelectSeq(facts, IsComplete)
    IN  [raised |-> FALSE,
         records |-> [i \in 1..Len(fs) |-> RecordOf(actor_id, session_id, fs[i], ts)]]

\* lines 95-104: the loop raises at the first fact it cannot map
MapFacts(actor_id, session_id, facts, ts) ==
    IF \E i \in 1..Len(facts) : FactRaises(facts[i])
    THEN [raised |-> TRUE, records |-> <<>>]
    ELSE [raised |-> FALSE,
          records |-> [i \in 1..Len(facts) |-> RecordOf(actor_id, session_id, facts[i], ts)]]

\* a handler that writes even an empty list
MustStoreAlways(recs) == TRUE

\* line 109: if records
MustStore(recs) == recs # <<>>

\* a handler that swallows the write's exception
BatchResultSwallowing(ok) == "ok"

\* lines 110-123: the write's exception is re-raised
BatchResult(ok) == IF ok THEN "ok" ELSE "raised"

\* a handler that carries on with an empty payload when the fetch fails
AfterFetchLenient(outcome) == "invoke"

\* lines 81-82: a failed get_object or json.loads ends the invocation
AfterFetch(outcome) == IF outcome = "ok" THEN "invoke" ELSE "done"

----------------------------------------------------------------------------
(* handler: one invocation, split at its external calls *)

NoRef == [bucket |-> <<>>, key |-> <<>>]

ParseIdle == url = <<>> /\ parsed = NotParsed
NotBuilt == [done |-> FALSE, text |-> <<>>]
TranscriptIdle == payload = NoPayload /\ built = NotBuilt
SetupIdle ==
    /\ memories = <<>>
    /\ runs = 0
    /\ createCalls = 0
    /\ dupCreate = FALSE
    /\ returned = <<>>

HandlerIdle ==
    /\ pc = "idle"
    /\ invocations = 0
    /\ location = <<>>
    /\ objRef = NoRef
    /\ delivered = NoPayload
    /\ transcript = <<>>
    /\ extracted = NoExtraction
    /\ now = 0
    /\ records = <<>>
    /\ calls = <<>>
    /\ result = "none"
    /\ stored = {}
    /\ failedAt = "none"
    /\ clock = 0
    /\ store = {}

InitHandler == HandlerIdle /\ ParseIdle /\ TranscriptIdle /\ SetupIdle

\* lines 69-78: the Lambda is invoked with an SNS event; a message that is not
\* JSON or has no s3PayloadLocation raises at lines 71-77
Receive ==
    /\ pc \in {"idle", "done"}
    /\ invocations < MaxInvocations
    /\ invocations' = invocations + 1
    /\ delivered' = NoPayload
    /\ transcript' = <<>>
    /\ extracted' = NoExtraction
    /\ records' = <<>>
    /\ calls' = <<>>
    /\ stored' = {}
    /\ \E msgOk \in BOOLEAN, loc \in Locations :
          LET p == _parse_s3_payload_location(loc)
          IN  /\ location' = IF msgOk THEN loc ELSE <<>>
              /\ IF msgOk /\ ~p.raised
                 THEN /\ pc' = "fetch"
                      /\ objRef' = [bucket |-> p.bucket, key |-> p.key]
                      /\ result' = "none"
                      /\ failedAt' = "none"
                 ELSE /\ pc' = "done"
                      /\ objRef' = NoRef
                      /\ result' = "raised"
                      /\ failedAt' = IF msgOk THEN "parse" ELSE "event"
    /\ UNCHANGED <<now, clock, store, parseVars, transcriptVars, setupVars>>

\* lines 81-88: s3.get_object raises ("error"), or the body is not JSON
\* ("notjson"), or the payload is read and the transcript built.  S3 refuses
\* an empty Key, so get_object returns only for a non-empty key.
GetObject ==
    /\ pc = "fetch"
    /\ \E outcome \in {"error", "notjson", "ok"}, d \in Payloads :
          /\ outcome # "error" => objRef.key # <<>>
          /\ calls' = Append(calls, [op |-> "s3", ok |-> outcome # "error"])
          /\ pc' = AfterFetch(outcome)
          /\ delivered' = IF outcome = "ok" THEN d ELSE NoPayload
          /\ transcript' = IF outcome = "ok" THEN _build_transcript(d) ELSE <<>>
          /\ failedAt' = IF outcome = "ok" THEN "none" ELSE "fetch"
          /\ result' = IF pc' = "done" THEN "raised" ELSE "none"
    /\ UNCHANGED <<invocations, location, objRef, extracted, now, records, stored,
                   clock, store, parseVars, transcriptVars, setupVars>>

\* lines 90-106 and 120-123: bedrock.invoke_model raises ("error"), or its text
\* is not JSON ("notjson"), or the facts are mapped to records at one reading
\* of the clock; without records the handler returns at once
InvokeModel ==
    /\ pc = "invoke"
    /\ \E outcome \in {"error", "notjson", "ok"}, e \in Extractions :
          LET m == MapFacts(delivered.actorId, delivered.sessionId,
                            GetOr(e.facts, <<>>), clock)
          IN  /\ calls' = Append(calls, [op |-> "bedrock", ok |-> outcome # "error"])
              /\ IF outcome # "ok"
                 THEN /\ pc' = "done"
                      /\ result' = "raised"
                      /\ failedAt' = IF outcome = "error" THEN "model" ELSE "json"
                      /\ UNCHANGED <<extracted, now, clock, records, stored>>
                 ELSE /\ extracted' = e
                      /\ now' = clock
                      /\ clock' = clock + 1
                      /\ records' = m.records
                      /\ IF m.raised
                         THEN /\ pc' = "done"
                              /\ result' = "raised"
                              /\ failedAt' = "map"
                              /\ stored' = {}
                         ELSE IF MustStore(m.records)
                         THEN /\ pc' = "store"
                              /\ UNCHANGED <<result, failedAt, stored>>
                         ELSE /\ pc' = "done"
                              /\ result' = "ok"
                              /\ stored' = {Len(m.records)}
                              /\ UNCHANGED failedAt
    /\ UNCHANGED <<invocations, location, objRef, delivered, transcript, store,
                   parseVars, transcriptVars, setupVars>>

\* what the memory store receives from one batch: a written record's session,
\* fact key and identifier
Written ==
    {[session |-> delivered.sessionId,
      key |-> extracted.facts.v[i].key,
      id |-> records[i].requestIdentifier] : i \in 1..Len(records)}

\* lines 109-123: the one batch write, and the return
BatchCreate ==
    /\ pc = "store"
    /\ \E ok \in BOOLEAN :
          /\ calls' = Append(calls, [op |-> "batch", ok |-> ok])
          /\ result' = BatchResult(ok)
          /\ stored' = IF result' = "ok" THEN {Len(records)} ELSE {}
          /\ failedAt' = IF ok THEN "none" ELSE "batch"
          /\ store' = IF ok THEN store \cup Written ELSE store
    /\ pc' = "done"
    /\ UNCHANGED <<invocations, location, objRef, delivered, transcript, extracted,
                   now, records, clock, parseVars, transcriptVars, setupVars>>

NextHandler == Receive \/ GetObject \/ InvokeModel \/ BatchCreate

Spec == InitHandler /\ [][NextHandler]_vars

----------------------------------------------------------------------------
(* handler: properties *)

IsBatch(c) == c.op = "batch"
BatchCalls == SelectSeq(calls, IsBatch)
BatchCalled == BatchCalls # <<>>

\* the model call returned and its text parsed as JSON
ModelReturned ==
    /\ \E i \in 1..Len(calls) : calls[i].op = "bedrock" /\ calls[i].ok
    /\ failedAt \notin {"model", "json"}

\* the facts the model returned: extracted.get("facts", [])
ReturnedFacts == GetOr(extracted.facts, <<>>)

DashUnknown == <<"-", "u", "n", "k", "n", "o", "w", "n">>

\* C1: an invocation calls batch_create_memory_records at most once; the list
\* it passes holds one record for every fact the model returned, in order, so
\* never a strict subset; and a successful return reports the size of that
\* batch as "stored".
C1_OneCompleteBatch ==
    /\ Len(BatchCalls) <= 1
    /\ BatchCalled =>
          /\ ModelReturned
          /\ Len(records) = Len(ReturnedFacts)
          /\ \A i \in 1..Len(ReturnedFacts) :
                /\ ReturnedFacts[i].key.some
                /\ records[i].requestIdentifier =
                      Fmt(delivered.sessionId) \o <<"-">> \o ReturnedFacts[i].key.v
    /\ (BatchCalled /\ result = "ok") => stored = {Len(records)}

C1_Witness ==
    /\ result = "ok"
    /\ BatchCalled
    /\ Len(ReturnedFacts) = 2
    /\ stored = {2}

\* C2: when the batch write raises, the invocation ends by raising: it returns
\* no success, reports no stored count, and has made that one write attempt only.
C2_BatchFailureReraised ==
    (\E i \in 1..Len(calls) : calls[i].op = "batch" /\ ~calls[i].ok) =>
        /\ pc = "done"
        /\ result = "raised"
        /\ stored = {}
        /\ Len(BatchCalls) = 1

C2_Witness ==
    /\ \E i \in 1..Len(calls) : calls[i].op = "batch" /\ ~calls[i].ok
    /\ result = "raised"
    /\ Len(records) = 2

\* C3: when the model's parsed output yields no facts, the invocation makes no
\* batch write and returns success with stored = 0.
C3_NoFactsNoWrite ==
    (ModelReturned /\ ReturnedFacts = <<>>) =>
        /\ ~BatchCalled
        /\ pc = "done"
        /\ result = "ok"
        /\ stored = {0}

C3_Witness ==
    /\ ModelReturned
    /\ extracted.facts = Some(<<>>)
    /\ result = "ok"
    /\ stored = {0}

\* C4: once the model has returned a fact that has a value and no key, the
\* records list holds a record whose requestIdentifier is the session id
\* followed by "-unknown", and the invocation submits it.
C4_KeylessFactIsUnknown ==
    (ModelReturned /\ \E i \in 1..Len(ReturnedFacts) :
                         ~ReturnedFacts[i].key.some /\ ReturnedFacts[i].value.some) =>
        /\ \E j \in 1..Len(records) :
              records[j].requestIdentifier = Fmt(delivered.sessionId) \o DashUnknown
        /\ result # "raised"

\* C5: over all the records written, the same (session, key) pair always has
\* the same requestIdentifier and two different pairs never share one.
C5_IdentifierPerPair ==
    \A a \in store, b \in store :
        (a.session = b.session /\ a.key = b.key) <=> (a.id = b.id)

\* C6: after a successful invocation in which every fact has a key and a
\* value, the i-th record submitted is the i-th fact's: namespaces ["/"]
\* whatever the actor, text "<key>: <value>", and the timestamp of the first
\* record.
C6_RecordsMirrorFacts ==
    (result = "ok" /\ ModelReturned) =>
        /\ Len(records) = Len(ReturnedFacts)
        /\ \A i \in 1..Len(records) :
              /\ records[i].namespaces = << <<"/">> >>
              /\ records[i].content.text =
                    ReturnedFacts[i].key.v \o <<":", " ">> \o ReturnedFacts[i].value.v
              /\ records[i].timestamp = records[1].timestamp
              /\ records[i].timestamp = now

C6_Witness ==
    /\ result = "ok"
    /\ BatchCalled
    /\ Len(records) = 2
    /\ delivered.actorId.some
    /\ records[1].content.text # records[2].content.text

CallOrder == <<"s3", "bedrock", "batch">>

\* C9: the external calls of an invocation are a prefix of get_object,
\* invoke_model, batch_create_memory_records, each made once and only after
\* the one before it succeeded; a failure of the location parse, the fetch,
\* the model call, the JSON parse or the mapping ends the invocation by
\* raising, with no batch write, and a success result follows no failure.
C9_LinearPipeline ==
    /\ Len(calls) <= Len(CallOrder)
    /\ \A i \in 1..Len(calls) :
          /\ calls[i].op = CallOrder[i]
          /\ i < Len(calls) => calls[i].ok
    /\ Len(calls) >= 2 => failedAt \notin {"event", "parse", "fetch"}
    /\ Len(calls) = 3 => failedAt \in {"none", "batch"}
    /\ failedAt # "none" => pc = "done" /\ result = "raised"
    /\ failedAt \in {"event", "parse", "fetch", "model", "json", "map"} => ~BatchCalled
    /\ result = "ok" => failedAt = "none" /\ pc = "done"

C9_Witness ==
    /\ failedAt = "map"
    /\ Len(calls) = 2
    /\ result = "raised"

----------------------------------------------------------------------------
(* _parse_s3_payload_location over bounded locations *)

\* s3://, S3://, s3:/, s3:, h:// and no prefix at all
Prefixes ==
    { <<"s", "3", ":", "/", "/">>,
      <<"S", "3", ":", "/", "/">>,
      <<"s", "3", ":", "/">>,
      <<"s", "3", ":">>,
      <<"h", ":", "/", "/">>,
      <<>> }

TailChars == {"b", "k", "/", "?"}

TestLocations == {p \o t : p \in Prefixes, t \in SeqUpTo(TailChars, MaxTail)}

InitParse ==
    /\ url \in TestLocations
    /\ parsed = NotParsed
    /\ HandlerIdle
    /\ TranscriptIdle
    /\ SetupIdle

ParseLocation ==
    /\ ~parsed.done
    /\ parsed' = _parse_s3_payload_location(url)
    /\ UNCHANGED <<url, handlerVars, transcriptVars, setupVars>>

NextParse == ParseLocation

SpecParse == InitParse /\ [][NextParse]_vars

S3Prefix == <<"s", "3", ":", "/", "/">>

StartsWith(s, p) == Len(s) >= Len(p) /\ SubSeq(s, 1, Len(p)) = p

\* the position of the "/" that ends the bucket of s3://bucket/key, or 0
BucketEnd(u) == IF StartsWith(u, S3Prefix) THEN FindFrom(u, {"/"}, Len(S3Prefix) + 1) ELSE 0

\* u has the form s3://bucket/key with a bucket and a key
IsS3Form(u) == BucketEnd(u) > Len(S3Prefix) + 1 /\ BucketEnd(u) < Len(u)

\* C8: a location s3://bucket/key/more parses to (bucket, "key/more"); a
\* location that does not begin with the s3 scheme and "//" raises; and
\* whatever is returned has a non-empty bucket and a non-empty key.
C8_ParseContract ==
    parsed.done =>
        /\ IsS3Form(url) =>
              /\ ~parsed.raised
              /\ parsed.bucket = SubSeq(url, Len(S3Prefix) + 1, BucketEnd(url) - 1)
              /\ parsed.key = SubSeq(url, BucketEnd(url) + 1, Len(url))
        /\ (\A p \in {S3Prefix, <<"S", "3", ":", "/", "/">>} : ~StartsWith(url, p)) => parsed.raised
        /\ ~parsed.raised => parsed.bucket # <<>> /\ parsed.key # <<>>

----------------------------------------------------------------------------
(* _build_transcript over bounded payloads *)

TextContent(t) == Some([text |-> Some(t), d |-> None])

\* items {"role": r, "content": c}: text "h"; text "x\ny"; content {"d": "z\n"};
\* content {}; another role; and items without role, content or both
Items ==
    { [role |-> Some(<<"u">>), content |-> TextContent(<<"h">>)],
      [role |-> Some(<<"u">>), content |-> TextContent(<<"x", NL, "y">>)],
      [role |-> Some(<<"u">>), content |-> Some([text |-> None, d |-> Some(<<"z", NL>>)])],
      [role |-> Some(<<"u">>), content |-> Some(EmptyContent)],
      [role |-> Some(<<"a">>), content |-> TextContent(<<"h">>)],
      [role |-> None, content |-> TextContent(<<"h">>)],
      [role |-> Some(<<"u">>), content |-> None],
      [role |-> None, content |-> None] }

\* the sections of k items; a missing (or null) section has none
SectionsOfLen(k) ==
    {Some(s) : s \in [1..k -> Items]} \cup (IF k = 0 THEN {None} ELSE {})

\* the payloads of at most MaxItems items
TestPayloads ==
    UNION { {[actorId |-> None, sessionId |-> None,
              historicalContext |-> h, currentContext |-> c] :
                h \in SectionsOfLen(n[1]), c \in SectionsOfLen(n[2])} :
            n \in {x \in (0..MaxItems) \X (0..MaxItems) : x[1] + x[2] <= MaxItems} }

InitTranscript ==
    /\ payload \in TestPayloads
    /\ built = NotBuilt
    /\ HandlerIdle
    /\ ParseIdle
    /\ SetupIdle

BuildTranscript ==
    /\ ~built.done
    /\ built' = [done |-> TRUE, text |-> _build_transcript(payload)]
    /\ UNCHANGED <<payload, handlerVars, parseVars, setupVars>>

NextTranscript == BuildTranscript

SpecTranscript == InitTranscript /\ [][NextTranscript]_vars

HasBoth(item) == item.role.some /\ item.content.some

\* the items with both role and content, historical before current
Qualifying ==
    SelectSeq(GetOr(payload.historicalContext, <<>>) \o GetOr(payload.currentContext, <<>>),
              HasBoth)

ExpectedLines == [i \in 1..Len(Qualifying) |-> _extract_text_from_context_item(Qualifying[i])]

NonEmpty(line) == line # <<>>
TranscriptLines == SelectSeq(Split(built.text, NL), NonEmpty)

HasLineBreak(s) == \E i \in 1..Len(s) : s[i] = NL

\* no qualifying item's role or content.text holds a line break
NoLineBreaks ==
    \A i \in 1..Len(Qualifying) :
        /\ ~HasLineBreak(Qualifying[i].role.v)
        /\ Qualifying[i].content.v.text.some => ~HasLineBreak(Qualifying[i].content.v.text.v)

\* C7 as stated: the transcript has exactly K non-empty lines, K the number of
\* items with both role and content.
C7_ExactlyKLines == built.done => Len(TranscriptLines) = Len(Qualifying)

\* C7 amended: the transcript is the "\n"-join of one entry per item with both
\* role and content, historical before current, each section in its order;
\* when no such item's role or text holds a line break, its non-empty lines
\* are exactly these K entries.
C7_EntriesInOrder ==
    built.done =>
        /\ built.text = Join(ExpectedLines, <<NL>>)
        /\ NoLineBreaks => TranscriptLines = ExpectedLines

C7_Witness ==
    /\ built.done
    /\ NoLineBreaks
    /\ Len(GetOr(payload.historicalContext, <<>>)) = 2
    /\ Len(GetOr(payload.currentContext, <<>>)) = 1
    /\ HasBoth(payload.historicalContext.v[2])
    /\ HasBoth(payload.currentContext.v[1])
    /\ Len(Qualifying) = 2
    /\ Len(TranscriptLines) = 2
    /\ TranscriptLines[1] # TranscriptLines[2]

----------------------------------------------------------------------------
(* get_or_create_memory *)

\* a memory id is "<name>-<suffix>", here the sequence of its parts
MemoryName == "UserInfoSelfManagedMemory"
IdPrefix == <<MemoryName, "-">>

\* line 22: memory['id'].startswith('UserInfoSelfManagedMemory-')
Matches(id) == StartsWith(id, IdPrefix)

\* the suffix the service gives the n-th memory this script creates
Suffixes == <<"a", "b", "c", "d", "e", "f", "g", "h">>
NewId(n) == IdPrefix \o <<Suffixes[n]>>

\* memories of the account that this script did not create
OtherIds == { <<"Other", "-", "x">>, <<MemoryName, "2", "-", "y">> }

Range(q) == {q[i] : i \in 1..Len(q)}

\* lines 19-27: the id the listing yields, or <<>>; a listing that raises is
\* caught at line 26 and yields nothing
FoundExisting(listOk) ==
    IF listOk /\ \E i \in 1..Len(memories) : Matches(memories[i])
    THEN memories[CHOOSE i \in 1..Len(memories) :
                      Matches(memories[i]) /\ \A j \in 1..(i - 1) : ~Matches(memories[j])]
    ELSE <<>>

InitSetup == SetupIdle /\ HandlerIdle /\ ParseIdle /\ TranscriptIdle

\* lines 15-58: one run of the script; list_memories and create_memory each
\* succeed or raise
RunScript ==
    /\ runs < MaxRuns
    /\ runs' = runs + 1
    /\ \E listOk \in BOOLEAN, createOk \in BOOLEAN :
          LET found == FoundExisting(listOk)
          IN  IF found # <<>>
              THEN /\ returned' = found
                   /\ UNCHANGED <<memories, createCalls, dupCreate>>
              ELSE /\ createCalls' = createCalls + 1
                   /\ dupCreate' = (dupCreate \/ \E i \in 1..Len(memories) : Matches(memories[i]))
                   /\ IF createOk
                      THEN /\ memories' = Append(memories, NewId(createCalls + 1))
                           /\ returned' = NewId(createCalls + 1)
                      ELSE /\ returned' = <<>>
                           /\ UNCHANGED memories
    /\ UNCHANGED <<handlerVars, parseVars, transcriptVars>>

\* another memory appears in the account
OtherMemoryCreated ==
    /\ \E id \in OtherIds \ Range(memories) : memories' = Append(memories, id)
    /\ UNCHANGED <<runs, createCalls, dupCreate, returned, handlerVars, parseVars,
                   transcriptVars>>

NextSetup == RunScript \/ OtherMemoryCreated

SpecSetup == InitSetup /\ [][NextSetup]_vars

\* C10: create_memory is called only when no memory whose id starts with
\* "UserInfoSelfManagedMemory-" exists, so after any sequence of runs the
\* account holds at most one such memory.
C10_CreateOrGet ==
    /\ ~dupCreate
    /\ Cardinality({i \in 1..Len(memories) : Matches(memories[i])}) <= 1

====
